---- MODULE Spec2Model ----
(***************************************************************************)
(* Subscription tracker: the use-case layer (filter normalisation,         *)
(* listing, cost aggregation) over the Postgres repository and its sqlc    *)
(* queries.                                                                *)
(*                                                                         *)
(* Time values are modelled at day resolution as [mon, day]: mon counts    *)
(* months since 0001-01 (so year = mon \div 12 + 1, month = mon % 12 + 1)  *)
(* and day is the day of the month.  Go's zero time.Time is 0001-01-01.    *)
(* Optional values (Go pointers, SQL NULLs) are sequences of length <= 1.  *)
(* The table is a function from id to row; seq is the last value of the    *)
(* BIGSERIAL sequence behind subscriptions.id.  running holds the use-case *)
(* calls that several callers have in progress at once, each between two   *)
(* of its repository calls; it is empty where calls run one at a time.     *)
(***************************************************************************)
EXTENDS Integers, Sequences, FiniteSets, TLC

VARIABLES subscriptions, seq, call, running

vars == <<subscriptions, seq, call, running>>

----------------------------------------------------------------------------
(* Bounds of the model *)

FirstMon == 10
NumMons == 3
MaxDay == 2
MaxCost == 2
MaxSubs == 2
MaxIds == 2

(* Program constants *)

defaultListLimit == 50
maxListLimit == 200
postgres_defaultListLimit == 50

----------------------------------------------------------------------------
(* time.Time *)

Nil == <<>>
Some(x) == <<x>>

Date(y, m, d) == [mon |-> (y - 1) * 12 + (m - 1), day |-> d]
Year(t) == (t.mon \div 12) + 1
Month(t) == (t.mon % 12) + 1
ZeroTime == Date(1, 1, 1)
IsZero(t) == t = ZeroTime
Before(a, b) == a.mon < b.mon \/ (a.mon = b.mon /\ a.day < b.day)
After(a, b) == Before(b, a)

Mons == FirstMon .. (FirstMon + NumMons - 1)
MonthDates == {[mon |-> m, day |-> 1] : m \in Mons}
Times == {ZeroTime} \cup {[mon |-> m, day |-> d] : m \in Mons, d \in 1 .. MaxDay}

monthStartKeepsDay(t) == t

monthStart(t) ==
    IF IsZero(t) THEN t ELSE Date(Year(t), Month(t), 1)

----------------------------------------------------------------------------
(* usecase.SubFilter, usecase.Period and the error values *)

ErrNone == "nil"
ErrInvalidPeriod == "ErrInvalidPeriod"
ErrInvalidPagination == "ErrInvalidPagination"
ErrScanUUID == "ErrScanUUID"
ErrStorage == "ErrStorage"
ErrSubscriptionNotFound == "ErrSubscriptionNotFound"
ErrInvalidSubscription == "ErrInvalidSubscription"
ErrInvalidID == "ErrInvalidID"
ErrNoRows == "pgx.ErrNoRows"
ErrConstraint == "ErrConstraint"

Users == {"u1", "u2"}
MalformedUser == "zz"
IsUUID(u) == u \in Users
Services == {"s1", "s2"}
ServiceRank == [s \in Services |-> IF s = "s1" THEN 1 ELSE 2]

Period(from, to) == [From |-> from, To |-> to]

SubFilter(user, svc, period, limit, offset) ==
    [UserID |-> user, ServiceName |-> svc, Period |-> period,
     Limit |-> limit, Offset |-> offset]

periodErrorOnGivenBounds(f) ==
    IF f.Period = Nil THEN ErrNone
    ELSE LET from == f.Period[1].From
             to == f.Period[1].To
         IN  IF IsZero(from) THEN ErrInvalidPeriod
             ELSE IF ~IsZero(to) /\ Before(to, from) THEN ErrInvalidPeriod
             ELSE ErrNone

periodError(f) ==
    IF f.Period = Nil THEN ErrNone
    ELSE LET from == monthStart(f.Period[1].From)
             to == monthStart(f.Period[1].To)
         IN  IF IsZero(from) THEN ErrInvalidPeriod
             ELSE IF ~IsZero(to) /\ Before(to, from) THEN ErrInvalidPeriod
             ELSE ErrNone

offsetErrorRejectsZero(offset) ==
    IF offset <= 0 THEN ErrInvalidPagination ELSE ErrNone

offsetErrorNever(offset) == ErrNone

offsetError(offset) ==
    IF offset < 0 THEN ErrInvalidPagination ELSE ErrNone

clampLimitKeepsZero(limit) ==
    IF limit < 0 THEN defaultListLimit
    ELSE IF limit > maxListLimit THEN maxListLimit
    ELSE limit

clampLimit(limit) ==
    IF limit <= 0 THEN defaultListLimit
    ELSE IF limit > maxListLimit THEN maxListLimit
    ELSE limit

(* The filter comes by value and its Period by pointer: given is the       *)
(* Period value the caller's pointer points to when the function returns.  *)
normalizeFilterInPlace(f) ==
    LET f1 == IF f.Period = Nil THEN f
              ELSE [f EXCEPT !.Period = Some(Period(monthStart(f.Period[1].From),
                                                    monthStart(f.Period[1].To)))]
    IN  IF periodError(f) # ErrNone
        THEN [f |-> f, err |-> periodError(f), given |-> f.Period]
        ELSE IF offsetError(f1.Offset) # ErrNone
             THEN [f |-> f1, err |-> offsetError(f1.Offset), given |-> f1.Period]
        ELSE [f |-> [f1 EXCEPT !.Limit = clampLimit(f1.Limit)], err |-> ErrNone,
              given |-> f1.Period]

normalizeFilter(f) ==
    LET f1 == IF f.Period = Nil THEN f
              ELSE [f EXCEPT !.Period = Some(Period(monthStart(f.Period[1].From),
                                                    monthStart(f.Period[1].To)))]
    IN  IF periodError(f) # ErrNone
        THEN [f |-> f, err |-> periodError(f), given |-> f.Period]
        ELSE IF offsetError(f1.Offset) # ErrNone
             THEN [f |-> f1, err |-> offsetError(f1.Offset), given |-> f.Period]
        ELSE [f |-> [f1 EXCEPT !.Limit = clampLimit(f1.Limit)], err |-> ErrNone,
              given |-> f.Period]

----------------------------------------------------------------------------
(* The subscriptions table (migration 001) and the sqlc queries *)

Row(user, svc, cost, start, end) ==
    [user_id |-> user, service_name |-> svc, cost |-> cost,
     start_date |-> start, end_date |-> end]

TableChecksNoPeriod(r) ==
    /\ r.cost >= 0
    /\ r.start_date.day = 1
    /\ r.end_date = Nil \/ r.end_date[1].day = 1

TableChecks(r) ==
    /\ r.cost >= 0
    /\ r.end_date = Nil \/ ~Before(r.end_date[1], r.start_date)
    /\ r.start_date.day = 1
    /\ r.end_date = Nil \/ r.end_date[1].day = 1

GREATEST(a, b) == IF Before(a, b) THEN b ELSE a
LEASTIsFirst(a, b) == a

LEAST(a, b) == IF Before(b, a) THEN b ELSE a
COALESCE(x, d) == IF x = Nil THEN d ELSE x[1]
AddMonthTwo(t) == [mon |-> t.mon + 2, day |-> t.day]

AddMonth(t) == [mon |-> t.mon + 1, day |-> t.day]

RECURSIVE generate_seriesExclusive(_, _)
generate_seriesExclusive(start, stop) ==
    IF ~Before(start, stop) THEN <<>>
    ELSE <<start>> \o generate_seriesExclusive(AddMonth(start), stop)

RECURSIVE generate_series(_, _)
generate_series(start, stop) ==
    IF Before(stop, start) THEN <<>>
    ELSE <<start>> \o generate_series(AddMonth(start), stop)

SeriesSet(s) == {s[i] : i \in 1 .. Len(s)}

RECURSIVE SUMDistinctRows(_, _)
SUMDistinctRows(table, joined) ==
    IF joined = {} THEN Nil
    ELSE LET j == CHOOSE x \in joined : TRUE
             same == {k \in joined : table[k[1]] = table[j[1]] /\ k[2] = j[2]}
             rest == SUMDistinctRows(table, joined \ same)
         IN  Some(table[j[1]].cost + COALESCE(rest, 0))

RECURSIVE SUM(_, _)
SUM(table, joined) ==
    IF joined = {} THEN Nil
    ELSE LET j == CHOOSE x \in joined : TRUE
             rest == SUM(table, joined \ {j})
         IN  Some(table[j[1]].cost + COALESCE(rest, 0))

SumFilteredAnyUser(table, p) ==
    {id \in DOMAIN table :
        /\ ~Before(p.period_to, table[id].start_date)
        /\ table[id].end_date = Nil \/ ~Before(table[id].end_date[1], p.period_from)
        /\ p.service_name = Nil \/ table[id].service_name = p.service_name[1]}

SumFiltered(table, p) ==
    {id \in DOMAIN table :
        /\ ~Before(p.period_to, table[id].start_date)
        /\ table[id].end_date = Nil \/ ~Before(table[id].end_date[1], p.period_from)
        /\ p.user_id = Nil \/ table[id].user_id = p.user_id[1]
        /\ p.service_name = Nil \/ table[id].service_name = p.service_name[1]}

SumEffectiveFromIgnoresPeriod(r, p) == r.start_date

SumEffectiveFrom(r, p) == GREATEST(r.start_date, p.period_from)

SumEffectiveToOpenEndsAtFrom(r, p) ==
    LEAST(COALESCE(r.end_date, p.period_from), p.period_to)

SumEffectiveTo(r, p) == LEAST(COALESCE(r.end_date, p.period_to), p.period_to)

SumExpanded(table, p) ==
    UNION {{<<id, m>> : m \in SeriesSet(generate_series(
                SumEffectiveFrom(table[id], p), SumEffectiveTo(table[id], p)))}
           : id \in SumFiltered(table, p)}

SumSubscriptionCostNoPeriod(table, p) ==
    COALESCE(SUM(table, {<<id, p.period_from>> : id \in
        {i \in DOMAIN table :
            /\ p.user_id = Nil \/ table[i].user_id = p.user_id[1]
            /\ p.service_name = Nil \/ table[i].service_name = p.service_name[1]}}), 0)

SumSubscriptionCost(table, p) ==
    COALESCE(SUM(table, SumExpanded(table, p)), 0)

LessIdDescending(a, b) ==
    \/ Before(a.start_date, b.start_date)
    \/ /\ a.start_date = b.start_date
       /\ \/ ServiceRank[a.service_name] < ServiceRank[b.service_name]
          \/ /\ a.service_name = b.service_name
             /\ a.id > b.id

Less(a, b) ==
    \/ Before(a.start_date, b.start_date)
    \/ /\ a.start_date = b.start_date
       /\ \/ ServiceRank[a.service_name] < ServiceRank[b.service_name]
          \/ /\ a.service_name = b.service_name
             /\ a.id < b.id

RECURSIVE OrderBy(_)
OrderBy(rows) ==
    IF rows = {} THEN <<>>
    ELSE LET first == CHOOSE r \in rows : \A o \in rows \ {r} : Less(r, o)
         IN  <<first>> \o OrderBy(rows \ {first})

ListWhereAnyService(table, p) ==
    {id \in DOMAIN table :
        /\ p.user_id = Nil \/ table[id].user_id = p.user_id[1]
        /\ \/ p.period_from = Nil
           \/ /\ \/ table[id].end_date = Nil
                 \/ ~Before(table[id].end_date[1], p.period_from[1])
              /\ \/ p.period_to = Nil
                 \/ ~Before(p.period_to[1], table[id].start_date)}

ListWhere(table, p) ==
    {id \in DOMAIN table :
        /\ p.user_id = Nil \/ table[id].user_id = p.user_id[1]
        /\ p.service_name = Nil \/ table[id].service_name = p.service_name[1]
        /\ \/ p.period_from = Nil
           \/ /\ \/ table[id].end_date = Nil
                 \/ ~Before(table[id].end_date[1], p.period_from[1])
              /\ \/ p.period_to = Nil
                 \/ ~Before(p.period_to[1], table[id].start_date)}

ListSubscriptionsOverlappingPages(table, p) ==
    LET ordered == OrderBy({[id |-> id] @@ table[id] : id \in ListWhere(table, p)})
        first == IF p.page_offset > 0 THEN p.page_offset ELSE 1
        last == IF p.page_offset + p.page_limit < Len(ordered)
                THEN p.page_offset + p.page_limit ELSE Len(ordered)
    IN  SubSeq(ordered, first, last)

ListSubscriptions(table, p) ==
    LET ordered == OrderBy({[id |-> id] @@ table[id] : id \in ListWhere(table, p)})
        last == IF p.page_offset + p.page_limit < Len(ordered)
                THEN p.page_offset + p.page_limit ELSE Len(ordered)
    IN  SubSeq(ordered, p.page_offset + 1, last)

----------------------------------------------------------------------------
(* postgres.SubRepository.  Limits and offsets of the model lie within     *)
(* int32, where the int32() casts of ListSubsByFilter change nothing.       *)

toEntity(r) ==
    [ID |-> r.id, UserID |-> r.user_id, ServiceName |-> r.service_name,
     Cost |-> r.cost, DateFrom |-> r.start_date, DateTo |-> r.end_date]

toPgUUID(s) ==
    IF s = "" THEN [uuid |-> Nil, err |-> ErrNone]
    ELSE IF s \in Users THEN [uuid |-> Some(s), err |-> ErrNone]
    ELSE [uuid |-> Nil, err |-> ErrScanUUID]

unboundedPeriodFrom(f) ==
    f.Period = Nil \/ IsZero(f.Period[1].From)

unboundedPeriod(f) ==
    f.Period = Nil \/ IsZero(f.Period[1].From) \/ IsZero(f.Period[1].To)

SumParams(f) ==
    [period_from |-> f.Period[1].From,
     period_to |-> f.Period[1].To,
     user_id |-> toPgUUID(f.UserID).uuid,
     service_name |-> f.ServiceName]

SubRepository_CostSubsByFilter(table, f, dbOk) ==
    IF unboundedPeriod(f)
    THEN [total |-> 0, err |-> ErrInvalidPeriod, queried |-> FALSE]
    ELSE IF toPgUUID(f.UserID).err # ErrNone
    THEN [total |-> 0, err |-> toPgUUID(f.UserID).err, queried |-> FALSE]
    ELSE IF ~dbOk THEN [total |-> 0, err |-> ErrStorage, queried |-> TRUE]
    ELSE [total |-> SumSubscriptionCost(table, SumParams(f)),
          err |-> ErrNone, queried |-> TRUE]

SubRepository_ListSubsByFilter(table, f, dbOk) ==
    LET limit == IF f.Limit <= 0 THEN postgres_defaultListLimit ELSE f.Limit
        offset == IF f.Offset < 0 THEN 0 ELSE f.Offset
        params == [page_limit |-> limit,
                   page_offset |-> offset,
                   user_id |-> toPgUUID(f.UserID).uuid,
                   service_name |-> f.ServiceName,
                   period_from |-> IF f.Period # Nil /\ ~IsZero(f.Period[1].From)
                                   THEN Some(f.Period[1].From) ELSE Nil,
                   period_to |-> IF f.Period # Nil /\ ~IsZero(f.Period[1].To)
                                 THEN Some(f.Period[1].To) ELSE Nil]
    IN  IF toPgUUID(f.UserID).err # ErrNone
        THEN [list |-> <<>>, err |-> toPgUUID(f.UserID).err, queried |-> FALSE]
        ELSE IF ~dbOk
        THEN [list |-> <<>>, err |-> ErrStorage, queried |-> TRUE]
        ELSE [list |-> [i \in 1 .. Len(ListSubscriptions(table, params)) |->
                            toEntity(ListSubscriptions(table, params)[i])],
              err |-> ErrNone, queried |-> TRUE]

(* The earlier SubRepository.CostSubsByFilter: it selects the rows with    *)
(* hand-written SQL and adds cost * months row by row, months being the    *)
(* closed-form count over the window cut to the period.                    *)

ClosedFormWhere(table, f) ==
    {id \in DOMAIN table :
        /\ \/ f.Period = Nil
           \/ /\ ~Before(f.Period[1].To, table[id].start_date)
              /\ \/ table[id].end_date = Nil
                 \/ ~Before(table[id].end_date[1], f.Period[1].From)
        /\ f.UserID = "" \/ table[id].user_id = f.UserID
        /\ f.ServiceName = Nil \/ table[id].service_name = f.ServiceName[1]}

ClosedFormRowCost(r, f) ==
    IF f.Period = Nil THEN r.cost
    ELSE LET from == IF After(r.start_date, f.Period[1].From)
                     THEN r.start_date ELSE f.Period[1].From
             to == IF r.end_date # Nil /\ Before(r.end_date[1], f.Period[1].To)
                   THEN r.end_date[1] ELSE f.Period[1].To
         IN  IF ~After(from, to)
             THEN r.cost * ((Year(to) - Year(from)) * 12 + (Month(to) - Month(from)) + 1)
             ELSE 0

RECURSIVE ClosedFormRows(_, _, _)
ClosedFormRows(table, ids, f) ==
    IF ids = {} THEN 0
    ELSE LET id == CHOOSE x \in ids : TRUE
         IN  ClosedFormRowCost(table[id], f) + ClosedFormRows(table, ids \ {id}, f)

ClosedForm_CostSubsByFilter(table, f, dbOk) ==
    IF ~dbOk \/ ~(f.UserID = "" \/ IsUUID(f.UserID))
    THEN [total |-> 0, err |-> ErrStorage]
    ELSE [total |-> ClosedFormRows(table, ClosedFormWhere(table, f), f),
          err |-> ErrNone]

----------------------------------------------------------------------------
(* usecase.Subscription: the calls and their recorded outcome.  call.repo   *)
(* is the filter the repository received, Nil when it was not called;      *)
(* call.queried tells whether the repository ran its SQL query.            *)

(* For the calls on one subscription: call.sub and call.id are the         *)
(* arguments, call.fail the repository call that fails (0: none),          *)
(* call.calls the repository methods called, in order, call.result the     *)
(* returned subscription and call.status the HTTP status of a handler.     *)
(* call.again tells that a cost call directly follows another cost call.   *)
(* call.sub is the pointer RegisterSub or UpdateSub is given (Nil when it  *)
(* is nil) and call.arg the subscription handed to the repository's        *)
(* SaveSub or UpdateSub (Nil when neither is called).  call.given is the   *)
(* Period value the caller's filter points to after a list or cost call.   *)
NoCall ==
    [op |-> "none", filter |-> SubFilter("", Nil, Nil, 0, 0), dbOk |-> TRUE,
     repo |-> Nil, queried |-> FALSE, err |-> ErrNone, total |-> 0,
     list |-> <<>>,
     sub |-> Nil, id |-> 0, fail |-> 0, calls |-> <<>>, result |-> Nil,
     status |-> 0, again |-> FALSE, arg |-> Nil, given |-> Nil]

Subscription_CostSubsByFilter(table, filter, dbOk) ==
    LET nf == normalizeFilter(filter)
        r == SubRepository_CostSubsByFilter(table, nf.f, dbOk)
    IN  IF nf.err # ErrNone
        THEN [repo |-> Nil, queried |-> FALSE, err |-> nf.err, total |-> 0,
              given |-> nf.given]
        ELSE [repo |-> Some(nf.f), queried |-> r.queried, err |-> r.err,
              total |-> r.total, given |-> nf.given]

Subscription_ListSubsByFilterSwallowsError(table, filter, dbOk) ==
    LET nf == normalizeFilter(filter)
        r == SubRepository_ListSubsByFilter(table, nf.f, dbOk)
    IN  IF nf.err # ErrNone
        THEN [repo |-> Nil, queried |-> FALSE, err |-> nf.err, list |-> <<>>,
              given |-> nf.given]
        ELSE [repo |-> Some(nf.f), queried |-> r.queried, err |-> ErrNone,
              list |-> r.list, given |-> nf.given]

Subscription_ListSubsByFilter(table, filter, dbOk) ==
    LET nf == normalizeFilter(filter)
        r == SubRepository_ListSubsByFilter(table, nf.f, dbOk)
    IN  IF nf.err # ErrNone
        THEN [repo |-> Nil, queried |-> FALSE, err |-> nf.err, list |-> <<>>,
              given |-> nf.given]
        ELSE [repo |-> Some(nf.f), queried |-> r.queried, err |-> r.err,
              list |-> r.list, given |-> nf.given]

CostSubsByFilterConsumes(filter, dbOk) ==
    LET out == Subscription_CostSubsByFilter(subscriptions, filter, dbOk)
    IN  /\ call' = [NoCall EXCEPT
                        !.op = "CostSubsByFilter", !.filter = filter, !.dbOk = dbOk,
                        !.repo = out.repo, !.queried = out.queried, !.err = out.err,
                        !.total = out.total, !.given = out.given,
                        !.calls = IF out.repo = Nil THEN <<>> ELSE <<"CostSubsByFilter">>,
                        !.again = (call.op = "CostSubsByFilter")]
        /\ subscriptions' = [i \in {j \in DOMAIN subscriptions :
                                       \E k \in DOMAIN subscriptions : k < j}
                                 |-> subscriptions[i]]
        /\ UNCHANGED <<seq, running>>

CostSubsByFilter(filter, dbOk) ==
    LET out == Subscription_CostSubsByFilter(subscriptions, filter, dbOk)
    IN  /\ call' = [NoCall EXCEPT
                        !.op = "CostSubsByFilter", !.filter = filter, !.dbOk = dbOk,
                        !.repo = out.repo, !.queried = out.queried, !.err = out.err,
                        !.total = out.total, !.given = out.given,
                        !.calls = IF out.repo = Nil THEN <<>> ELSE <<"CostSubsByFilter">>,
                        !.again = (call.op = "CostSubsByFilter")]
        /\ UNCHANGED <<subscriptions, seq, running>>

ListSubsByFilter(filter, dbOk) ==
    LET out == Subscription_ListSubsByFilter(subscriptions, filter, dbOk)
    IN  /\ call' = [NoCall EXCEPT
                        !.op = "ListSubsByFilter", !.filter = filter, !.dbOk = dbOk,
                        !.repo = out.repo, !.queried = out.queried, !.err = out.err,
                        !.list = out.list, !.given = out.given,
                        !.calls = IF out.repo = Nil THEN <<>> ELSE <<"ListSubsByFilter">>]
        /\ UNCHANGED <<subscriptions, seq, running>>

----------------------------------------------------------------------------
(* Writes and reads of one subscription: the sqlc queries *)

nextval(s) == s + 1

(* INSERT ... RETURNING: the id comes from the sequence, which advances    *)
(* also when a constraint then rejects the row.                            *)
CreateSubscriptionReusesId(table, s, params, ok) ==
    LET row == Row(params.user_id, params.service_name, params.cost,
                   params.start_date, params.end_date)
        id == IF s = 0 THEN 1 ELSE s
    IN  [table |-> (id :> row) @@ table, seq |-> id,
         row |-> Some([id |-> id] @@ row), err |-> ErrNone]

CreateSubscription(table, s, params, ok) ==
    LET row == Row(params.user_id, params.service_name, params.cost,
                   params.start_date, params.end_date)
        id == nextval(s)
    IN  IF ~ok THEN [table |-> table, seq |-> s, row |-> Nil, err |-> ErrStorage]
        ELSE IF ~IsUUID(params.user_id) \/ ~TableChecks(row) \/ id \in DOMAIN table
        THEN [table |-> table, seq |-> id, row |-> Nil, err |-> ErrConstraint]
        ELSE [table |-> (id :> row) @@ table, seq |-> id,
              row |-> Some([id |-> id] @@ row), err |-> ErrNone]

UpdateSubscriptionKeepsEndDate(table, params, ok) ==
    LET row == Row(params.user_id, params.service_name, params.cost,
                   params.start_date,
                   IF params.end_date = Nil /\ params.id \in DOMAIN table
                   THEN table[params.id].end_date ELSE params.end_date)
    IN  IF ~ok THEN [table |-> table, rows |-> 0, err |-> ErrStorage]
        ELSE IF ~IsUUID(params.user_id)
        THEN [table |-> table, rows |-> 0, err |-> ErrConstraint]
        ELSE IF params.id \notin DOMAIN table
        THEN [table |-> table, rows |-> 0, err |-> ErrNone]
        ELSE IF ~TableChecks(row)
        THEN [table |-> table, rows |-> 0, err |-> ErrConstraint]
        ELSE [table |-> [table EXCEPT ![params.id] = row], rows |-> 1,
              err |-> ErrNone]

UpdateSubscription(table, params, ok) ==
    LET row == Row(params.user_id, params.service_name, params.cost,
                   params.start_date, params.end_date)
    IN  IF ~ok THEN [table |-> table, rows |-> 0, err |-> ErrStorage]
        ELSE IF ~IsUUID(params.user_id)
        THEN [table |-> table, rows |-> 0, err |-> ErrConstraint]
        ELSE IF params.id \notin DOMAIN table
        THEN [table |-> table, rows |-> 0, err |-> ErrNone]
        ELSE IF ~TableChecks(row)
        THEN [table |-> table, rows |-> 0, err |-> ErrConstraint]
        ELSE [table |-> [table EXCEPT ![params.id] = row], rows |-> 1,
              err |-> ErrNone]

DeleteSubscriptionAll(table, id, ok) ==
    IF ~ok THEN [table |-> table, rows |-> 0, err |-> ErrStorage]
    ELSE IF id \notin DOMAIN table THEN [table |-> table, rows |-> 0, err |-> ErrNone]
    ELSE [table |-> <<>>, rows |-> 1, err |-> ErrNone]

DeleteSubscription(table, id, ok) ==
    IF ~ok THEN [table |-> table, rows |-> 0, err |-> ErrStorage]
    ELSE IF id \notin DOMAIN table THEN [table |-> table, rows |-> 0, err |-> ErrNone]
    ELSE [table |-> [i \in DOMAIN table \ {id} |-> table[i]], rows |-> 1,
          err |-> ErrNone]

GetSubscription(table, id, ok) ==
    IF ~ok THEN [row |-> Nil, err |-> ErrStorage]
    ELSE IF id \notin DOMAIN table THEN [row |-> Nil, err |-> ErrNoRows]
    ELSE [row |-> Some([id |-> id] @@ table[id]), err |-> ErrNone]

(* postgres.SubRepository *)

SubRepository_SaveSub(table, s, sub, ok) ==
    LET out == CreateSubscription(table, s,
                   [user_id |-> sub.UserID, service_name |-> sub.ServiceName,
                    cost |-> sub.Cost, start_date |-> sub.DateFrom,
                    end_date |-> sub.DateTo], ok)
    IN  IF out.err # ErrNone
        THEN [table |-> out.table, seq |-> out.seq, sub |-> Nil, err |-> out.err]
        ELSE [table |-> out.table, seq |-> out.seq,
              sub |-> Some(toEntity(out.row[1])), err |-> ErrNone]

SubRepository_UpdateSub(table, sub, ok) ==
    LET out == UpdateSubscription(table,
                   [id |-> sub.ID, user_id |-> sub.UserID,
                    service_name |-> sub.ServiceName, cost |-> sub.Cost,
                    start_date |-> sub.DateFrom, end_date |-> sub.DateTo], ok)
    IN  IF out.err # ErrNone THEN [table |-> out.table, err |-> out.err]
        ELSE IF out.rows = 0 THEN [table |-> out.table, err |-> ErrSubscriptionNotFound]
        ELSE [table |-> out.table, err |-> ErrNone]

SubRepository_DeleteSubIgnoresRows(table, id, ok) ==
    LET out == DeleteSubscription(table, id, ok)
    IN  IF out.err # ErrNone THEN [table |-> out.table, err |-> out.err]
        ELSE [table |-> out.table, err |-> ErrNone]

SubRepository_DeleteSub(table, id, ok) ==
    LET out == DeleteSubscription(table, id, ok)
    IN  IF out.err # ErrNone THEN [table |-> out.table, err |-> out.err]
        ELSE IF out.rows = 0 THEN [table |-> out.table, err |-> ErrSubscriptionNotFound]
        ELSE [table |-> out.table, err |-> ErrNone]

SubRepository_GetSubByID(table, id, ok) ==
    LET out == GetSubscription(table, id, ok)
    IN  IF out.err = ErrNoRows THEN [sub |-> Nil, err |-> ErrSubscriptionNotFound]
        ELSE IF out.err # ErrNone THEN [sub |-> Nil, err |-> out.err]
        ELSE [sub |-> Some(toEntity(out.row[1])), err |-> ErrNone]

(* usecase.Subscription.  fail is the number of the repository call that   *)
(* fails in the store (0: none).                                           *)

Subscription(id, user, svc, cost, from, to) ==
    [ID |-> id, UserID |-> user, ServiceName |-> svc, Cost |-> cost,
     DateFrom |-> from, DateTo |-> to]

TrimSpace(str) ==
    IF str = " s1 " THEN "s1" ELSE IF str = " " THEN "" ELSE str

validateAndNormalizeKeepsSpaces(sub) ==
    LET s1 == sub[1]
        s2 == [s1 EXCEPT !.DateFrom = monthStart(s1.DateFrom)]
        s3 == IF s2.DateTo # Nil /\ ~IsZero(s2.DateTo[1])
              THEN [s2 EXCEPT !.DateTo = Some(monthStart(s2.DateTo[1]))]
              ELSE s2
    IN  IF sub = Nil THEN [sub |-> Nil, err |-> ErrInvalidSubscription]
        ELSE IF s1.ServiceName = ""
        THEN [sub |-> Some(s1), err |-> ErrInvalidSubscription]
        ELSE IF s1.Cost <= 0 THEN [sub |-> Some(s1), err |-> ErrInvalidSubscription]
        ELSE IF s1.UserID = "" THEN [sub |-> Some(s1), err |-> ErrInvalidSubscription]
        ELSE IF IsZero(s1.DateFrom)
        THEN [sub |-> Some(s1), err |-> ErrInvalidSubscription]
        ELSE IF s3.DateTo # Nil /\ ~IsZero(s3.DateTo[1])
                /\ Before(s3.DateTo[1], s3.DateFrom)
        THEN [sub |-> Some(s3), err |-> ErrInvalidPeriod]
        ELSE [sub |-> Some(s3), err |-> ErrNone]

(* sub is a pointer: Nil, or Some of the subscription it points to, which  *)
(* the function rewrites in place; the result's sub is what the pointer    *)
(* points to afterwards.                                                   *)
validateAndNormalize(sub) ==
    LET s1 == [sub[1] EXCEPT !.ServiceName = TrimSpace(sub[1].ServiceName)]
        s2 == [s1 EXCEPT !.DateFrom = monthStart(s1.DateFrom)]
        s3 == IF s2.DateTo # Nil /\ ~IsZero(s2.DateTo[1])
              THEN [s2 EXCEPT !.DateTo = Some(monthStart(s2.DateTo[1]))]
              ELSE s2
    IN  IF sub = Nil THEN [sub |-> Nil, err |-> ErrInvalidSubscription]
        ELSE IF s1.ServiceName = ""
        THEN [sub |-> Some(s1), err |-> ErrInvalidSubscription]
        ELSE IF s1.Cost <= 0 THEN [sub |-> Some(s1), err |-> ErrInvalidSubscription]
        ELSE IF s1.UserID = "" THEN [sub |-> Some(s1), err |-> ErrInvalidSubscription]
        ELSE IF IsZero(s1.DateFrom)
        THEN [sub |-> Some(s1), err |-> ErrInvalidSubscription]
        ELSE IF s3.DateTo # Nil /\ ~IsZero(s3.DateTo[1])
                /\ Before(s3.DateTo[1], s3.DateFrom)
        THEN [sub |-> Some(s3), err |-> ErrInvalidPeriod]
        ELSE [sub |-> Some(s3), err |-> ErrNone]

Subscription_RegisterSub(table, s, sub, fail) ==
    LET v == validateAndNormalize(sub)
        saved == SubRepository_SaveSub(table, s, v.sub[1], fail # 1)
    IN  IF v.err # ErrNone
        THEN [table |-> table, seq |-> s, result |-> Nil, err |-> v.err,
              calls |-> <<>>, arg |-> Nil]
        ELSE [table |-> saved.table, seq |-> saved.seq,
              result |-> IF saved.err # ErrNone THEN Nil ELSE saved.sub,
              err |-> saved.err, calls |-> <<"SaveSub">>, arg |-> v.sub]

Subscription_UpdateSubWritesFirst(table, sub, fail) ==
    LET v == validateAndNormalize(sub)
        upd == SubRepository_UpdateSub(table, v.sub[1], fail # 1)
        got == SubRepository_GetSubByID(upd.table, v.sub[1].ID, fail # 2)
    IN  IF sub = Nil
        THEN [table |-> table, result |-> Nil, err |-> ErrInvalidID,
              calls |-> <<>>, arg |-> Nil]
        ELSE IF upd.err # ErrNone
        THEN [table |-> upd.table, result |-> Nil, err |-> upd.err,
              calls |-> <<"UpdateSub">>, arg |-> v.sub]
        ELSE IF sub[1].ID <= 0
        THEN [table |-> upd.table, result |-> Nil, err |-> ErrInvalidID,
              calls |-> <<"UpdateSub">>, arg |-> v.sub]
        ELSE IF v.err # ErrNone
        THEN [table |-> upd.table, result |-> Nil, err |-> v.err,
              calls |-> <<"UpdateSub">>, arg |-> v.sub]
        ELSE [table |-> upd.table, result |-> got.sub, err |-> got.err,
              calls |-> <<"UpdateSub", "GetSubByID">>, arg |-> v.sub]

Subscription_UpdateSub(table, sub, fail) ==
    LET v == validateAndNormalize(sub)
        upd == SubRepository_UpdateSub(table, v.sub[1], fail # 1)
        got == SubRepository_GetSubByID(upd.table, v.sub[1].ID, fail # 2)
    IN  IF sub = Nil
        THEN [table |-> table, result |-> Nil, err |-> ErrInvalidID,
              calls |-> <<>>, arg |-> Nil]
        ELSE IF sub[1].ID <= 0
        THEN [table |-> table, result |-> Nil, err |-> ErrInvalidID,
              calls |-> <<>>, arg |-> Nil]
        ELSE IF v.err # ErrNone
        THEN [table |-> table, result |-> Nil, err |-> v.err, calls |-> <<>>,
              arg |-> Nil]
        ELSE IF upd.err # ErrNone
        THEN [table |-> upd.table, result |-> Nil, err |-> upd.err,
              calls |-> <<"UpdateSub">>, arg |-> v.sub]
        ELSE [table |-> upd.table, result |-> got.sub, err |-> got.err,
              calls |-> <<"UpdateSub", "GetSubByID">>, arg |-> v.sub]

Subscription_DeleteSub(table, id, fail) ==
    LET existing == SubRepository_GetSubByID(table, id, fail # 1)
        del == SubRepository_DeleteSub(table, id, fail # 2)
    IN  IF id <= 0
        THEN [table |-> table, result |-> Nil, err |-> ErrInvalidID, calls |-> <<>>]
        ELSE IF existing.err # ErrNone
        THEN [table |-> table, result |-> Nil, err |-> existing.err,
              calls |-> <<"GetSubByID">>]
        ELSE IF del.err # ErrNone
        THEN [table |-> del.table, result |-> Nil, err |-> del.err,
              calls |-> <<"GetSubByID", "DeleteSub">>]
        ELSE [table |-> del.table, result |-> existing.sub, err |-> ErrNone,
              calls |-> <<"GetSubByID", "DeleteSub">>]

Subscription_GetSubByID(table, id, fail) ==
    LET got == SubRepository_GetSubByID(table, id, fail # 1)
    IN  IF id <= 0 THEN [result |-> Nil, err |-> ErrInvalidID, calls |-> <<>>]
        ELSE [result |-> got.sub, err |-> got.err, calls |-> <<"GetSubByID">>]

(* GET /subscriptions/:id of the HTTP gateway, for an id that parses as an *)
(* integer: the status of the response.                                    *)
GetSubscriptionStatus(out) ==
    IF out.err = ErrInvalidID THEN 422
    ELSE IF out.err # ErrNone THEN 500
    ELSE IF out.result = Nil THEN 404
    ELSE 200

(* MaxIds caps the ids the sequence hands out. *)
RegisterSub(sub, fail) ==
    LET out == Subscription_RegisterSub(subscriptions, seq, sub, fail)
    IN  /\ seq < MaxIds
        /\ subscriptions' = out.table
        /\ seq' = out.seq
        /\ UNCHANGED running
        /\ call' = [NoCall EXCEPT !.op = "RegisterSub", !.sub = sub,
                                  !.fail = fail, !.calls = out.calls,
                                  !.result = out.result, !.err = out.err,
                                  !.arg = out.arg]

UpdateSub(sub, fail) ==
    LET out == Subscription_UpdateSub(subscriptions, sub, fail)
    IN  /\ subscriptions' = out.table
        /\ call' = [NoCall EXCEPT !.op = "UpdateSub", !.sub = sub,
                                  !.id = IF sub = Nil THEN 0 ELSE sub[1].ID,
                                  !.fail = fail, !.calls = out.calls,
                                  !.result = out.result, !.err = out.err,
                                  !.arg = out.arg]
        /\ UNCHANGED <<seq, running>>

DeleteSub(id, fail) ==
    LET out == Subscription_DeleteSub(subscriptions, id, fail)
    IN  /\ subscriptions' = out.table
        /\ call' = [NoCall EXCEPT !.op = "DeleteSub", !.id = id,
                                  !.fail = fail, !.calls = out.calls,
                                  !.result = out.result, !.err = out.err]
        /\ UNCHANGED <<seq, running>>

GetSubscriptionHandler(id, fail) ==
    LET out == Subscription_GetSubByID(subscriptions, id, fail)
    IN  /\ call' = [NoCall EXCEPT !.op = "GET /subscriptions/:id", !.id = id,
                                  !.fail = fail, !.calls = out.calls,
                                  !.result = out.result, !.err = out.err,
                                  !.status = GetSubscriptionStatus(out)]
        /\ UNCHANGED <<subscriptions, seq, running>>

(* The two repository implementations of the cost aggregate, called with  *)
(* a filter as it is.                                                      *)
RepositoryCost(f) ==
    LET out == SubRepository_CostSubsByFilter(subscriptions, f, TRUE)
    IN  /\ call' = [NoCall EXCEPT !.op = "SubRepository.CostSubsByFilter",
                                  !.filter = f, !.repo = Some(f),
                                  !.queried = out.queried, !.err = out.err,
                                  !.total = out.total,
                                  !.calls = <<"CostSubsByFilter">>]
        /\ UNCHANGED <<subscriptions, seq, running>>

ClosedFormCost(f) ==
    LET out == ClosedForm_CostSubsByFilter(subscriptions, f, TRUE)
    IN  /\ call' = [NoCall EXCEPT !.op = "closed-form CostSubsByFilter",
                                  !.filter = f, !.repo = Some(f),
                                  !.queried = TRUE, !.err = out.err,
                                  !.total = out.total,
                                  !.calls = <<"CostSubsByFilter">>]
        /\ UNCHANGED <<subscriptions, seq, running>>

(* The outcome is handed back to the caller; the use case keeps no state   *)
(* between calls.                                                          *)
Respond ==
    /\ call # NoCall
    /\ call' = NoCall
    /\ UNCHANGED <<subscriptions, seq, running>>

----------------------------------------------------------------------------
(* DeleteSub and UpdateSub of several callers at once.  Each repository    *)
(* call is one statement on the pool and takes effect at once; between the *)
(* two repository calls of one use-case call the other callers may run.    *)
(* running[c].pc names the repository call caller c makes next, existing   *)
(* is the record DeleteSub has read and arg the normalized input of        *)
(* UpdateSub.                                                              *)

Idle ==
    [op |-> "none", pc |-> "idle", id |-> 0, sub |-> Nil, arg |-> Nil,
     existing |-> Nil, result |-> Nil, err |-> ErrNone]

Return(c, result, err) ==
    [running EXCEPT ![c].pc = "done", ![c].result = result, ![c].err = err]

BeginDeleteSub(c, id) ==
    /\ running[c].pc = "idle"
    /\ running' = [running EXCEPT ![c] =
                      IF id <= 0
                      THEN [Idle EXCEPT !.op = "DeleteSub", !.id = id,
                                        !.pc = "done", !.err = ErrInvalidID]
                      ELSE [Idle EXCEPT !.op = "DeleteSub", !.id = id,
                                        !.pc = "GetSubByID"]]
    /\ UNCHANGED <<subscriptions, seq, call>>

DeleteSub_GetSubByID(c) ==
    LET existing == SubRepository_GetSubByID(subscriptions, running[c].id, TRUE)
    IN  /\ running[c].op = "DeleteSub" /\ running[c].pc = "GetSubByID"
        /\ running' = IF existing.err # ErrNone
                       THEN Return(c, Nil, existing.err)
                       ELSE [running EXCEPT ![c].pc = "DeleteSub",
                                            ![c].existing = existing.sub]
        /\ UNCHANGED <<subscriptions, seq, call>>

DeleteSub_DeleteSub(c) ==
    LET del == SubRepository_DeleteSub(subscriptions, running[c].id, TRUE)
    IN  /\ running[c].op = "DeleteSub" /\ running[c].pc = "DeleteSub"
        /\ subscriptions' = del.table
        /\ running' = IF del.err # ErrNone THEN Return(c, Nil, del.err)
                       ELSE Return(c, running[c].existing, ErrNone)
        /\ UNCHANGED <<seq, call>>

BeginUpdateSub(c, sub) ==
    LET v == validateAndNormalize(sub)
        begun == [Idle EXCEPT !.op = "UpdateSub", !.sub = sub,
                              !.id = IF sub = Nil THEN 0 ELSE sub[1].ID]
    IN  /\ running[c].pc = "idle"
        /\ running' = [running EXCEPT ![c] =
                          IF sub = Nil
                          THEN [begun EXCEPT !.pc = "done", !.err = ErrInvalidID]
                          ELSE IF sub[1].ID <= 0
                          THEN [begun EXCEPT !.pc = "done", !.err = ErrInvalidID]
                          ELSE IF v.err # ErrNone
                          THEN [begun EXCEPT !.pc = "done", !.err = v.err]
                          ELSE [begun EXCEPT !.pc = "UpdateSub", !.arg = v.sub]]
        /\ UNCHANGED <<subscriptions, seq, call>>

UpdateSub_UpdateSub(c) ==
    LET upd == SubRepository_UpdateSub(subscriptions, running[c].arg[1], TRUE)
    IN  /\ running[c].op = "UpdateSub" /\ running[c].pc = "UpdateSub"
        /\ subscriptions' = upd.table
        /\ running' = IF upd.err # ErrNone THEN Return(c, Nil, upd.err)
                       ELSE [running EXCEPT ![c].pc = "GetSubByID"]
        /\ UNCHANGED <<seq, call>>

UpdateSub_GetSubByID(c) ==
    LET got == SubRepository_GetSubByID(subscriptions, running[c].arg[1].ID, TRUE)
    IN  /\ running[c].op = "UpdateSub" /\ running[c].pc = "GetSubByID"
        /\ running' = Return(c, got.sub, got.err)
        /\ UNCHANGED <<subscriptions, seq, call>>

----------------------------------------------------------------------------
(* Inputs *)

Rows ==
    {r \in [user_id : Users, service_name : Services, cost : 1 .. MaxCost,
            start_date : MonthDates,
            end_date : {Nil} \cup {Some(d) : d \in MonthDates}] : TableChecks(r)}

Limits == {-1, 0, 1, maxListLimit, maxListLimit + 1}
Offsets == {-1, 0, 1}

Periods(times) == {Nil} \cup {Some(Period(a, b)) : a \in times, b \in times}

(* The filters the cost handler of the HTTP gateway builds: a period of    *)
(* two parsed months with from <= to, no pagination.                       *)
CostFilters ==
    {SubFilter(u, s, Some(Period(p[1], p[2])), 0, 0) :
        u \in {"", "u1"}, s \in {Nil, Some("s1")},
        p \in {q \in MonthDates \X MonthDates : ~Before(q[2], q[1])}}

(* Stored rows of three kinds: the subscription the filters select, with   *)
(* every start and end, and open-ended ones of another user and of another *)
(* service.  The aggregate query does not read ids, so tables are taken up *)
(* to the order of their rows.                                             *)
CostRows ==
    {r \in Rows :
        \/ <<r.user_id, r.service_name, r.cost>> = <<"u1", "s1", MaxCost>>
        \/ /\ <<r.user_id, r.service_name, r.cost>> \in {<<"u2", "s1", 1>>, <<"u1", "s2", 1>>}
           /\ r.end_date = Nil}

RowRank(r) ==
    ((IF r.user_id = "u1" THEN 0 ELSE 1000) + (IF r.service_name = "s1" THEN 0 ELSE 2000))
        + r.start_date.mon * 30 + (IF r.end_date = Nil THEN 0 ELSE r.end_date[1].mon + 1)

CostTables ==
    {t \in UNION {[1 .. n -> CostRows] : n \in 0 .. MaxSubs} :
        \A i \in 1 .. (Len(t) - 1) : RowRank(t[i]) <= RowRank(t[i + 1])}

RawFilters ==
    {SubFilter(u, s, p, l, o) :
        u \in {"", "u1", MalformedUser}, s \in {Nil, Some("s1")},
        p \in Periods(Times), l \in Limits, o \in Offsets}
    \cup {SubFilter(u, Some(" S1 "), p, 0, 0) :
             u \in {"u1", " U1 "},
             p \in {Nil, Some(Period([mon |-> FirstMon, day |-> MaxDay],
                                     [mon |-> FirstMon, day |-> MaxDay]))}}

NormTables ==
    {<<>>} \cup {<<Row("u1", "s1", 1, d, Nil)>> : d \in MonthDates}

----------------------------------------------------------------------------
(* Cost aggregation over the stored tables *)

InitCost ==
    /\ subscriptions \in CostTables
    /\ seq = Len(subscriptions)
    /\ call = NoCall
    /\ running = <<>>

NextCost ==
    \/ call = NoCall /\ \E f \in CostFilters : CostSubsByFilter(f, TRUE)
    \/ Respond

SpecCost == InitCost /\ [][NextCost]_vars

(* Cost aggregation over every bounded period, for one user and service    *)
(* and for no user and no service                                          *)

SplitFilters ==
    {f \in CostFilters :
        \/ f.UserID = "" /\ f.ServiceName = Nil
        \/ f.UserID = "u1" /\ f.ServiceName = Some("s1")}

InitSplit ==
    /\ subscriptions \in CostTables
    /\ seq = Len(subscriptions)
    /\ call = NoCall
    /\ running = <<>>

NextSplit ==
    \/ call = NoCall /\ \E f \in SplitFilters : CostSubsByFilter(f, TRUE)
    \/ Respond

SpecSplit == InitSplit /\ [][NextSplit]_vars

(* Filter normalisation over every raw filter and repository outcome *)

InitNorm ==
    /\ subscriptions \in NormTables
    /\ seq = Len(subscriptions)
    /\ call = NoCall
    /\ running = <<>>

NextNorm ==
    \/ call = NoCall /\ \E f \in RawFilters, ok \in BOOLEAN : ListSubsByFilter(f, ok)
    \/ call = NoCall /\ \E f \in RawFilters, ok \in BOOLEAN : CostSubsByFilter(f, ok)
    \/ Respond

SpecNorm == InitNorm /\ [][NextNorm]_vars

(* Listing and cost aggregation over the same stored tables.  A listing    *)
(* filter has no period, or a period from a month on, open (zero to) or up *)
(* to a later month; the page is the default one or, with no user and no   *)
(* service, the second row alone.                                          *)

ListPeriods ==
    {Nil} \cup {Some(Period(q[1], q[2])) :
                  q \in {x \in MonthDates \X ({ZeroTime} \cup MonthDates) :
                             IsZero(x[2]) \/ ~Before(x[2], x[1])}}

ListFilters ==
    {SubFilter(u, s, p, 0, 0) :
        u \in {"", "u1"}, s \in {Nil, Some("s1")}, p \in ListPeriods}
    \cup {SubFilter("", Nil, p, 1, 1) : p \in ListPeriods}

InitList ==
    /\ subscriptions \in CostTables
    /\ seq = Len(subscriptions)
    /\ call = NoCall
    /\ running = <<>>

NextList ==
    \/ call = NoCall /\ \E f \in ListFilters : ListSubsByFilter(f, TRUE)
    \/ call = NoCall /\ \E f \in CostFilters : CostSubsByFilter(f, TRUE)
    \/ Respond

SpecList == InitList /\ [][NextList]_vars

(* Listing page by page: small limits, and offsets up to past the end *)

PageFilters ==
    {SubFilter(u, Nil, Nil, l, o) :
        u \in {"", "u1"}, l \in 1 .. MaxSubs, o \in 0 .. (MaxSubs + 1)}

InitPage ==
    /\ subscriptions \in CostTables
    /\ seq = Len(subscriptions)
    /\ call = NoCall
    /\ running = <<>>

NextPage ==
    \/ call = NoCall /\ \E f \in PageFilters : ListSubsByFilter(f, TRUE)
    \/ Respond

SpecPage == InitPage /\ [][NextPage]_vars

(* The two cost implementations as functions of the stored rows and of a   *)
(* filter whose period has two months in either order.                     *)

EquivFilters ==
    {SubFilter(us[1], us[2], Some(Period(a, b)), 0, 0) :
        us \in {"", "u1"} \X {Nil, Some("s1")},
        a \in MonthDates, b \in MonthDates}

InitEquiv ==
    /\ subscriptions \in CostTables
    /\ seq = Len(subscriptions)
    /\ call = NoCall
    /\ running = <<>>

NextEquiv ==
    \/ call = NoCall /\ \E f \in EquivFilters : RepositoryCost(f)
    \/ call = NoCall /\ \E f \in EquivFilters : ClosedFormCost(f)
    \/ Respond

SpecEquiv == InitEquiv /\ [][NextEquiv]_vars

(* Writes and reads of single subscriptions, from an empty table.  A cost *)
(* call may follow a cost call directly, with no write in between.         *)

CrudFrom == {[mon |-> FirstMon, day |-> MaxDay], [mon |-> FirstMon + 1, day |-> 1]}

CrudTo ==
    {Nil, Some(ZeroTime), Some([mon |-> FirstMon, day |-> MaxDay]),
     Some([mon |-> FirstMon + 1, day |-> 1])}

SubInputs ==
    {Subscription(id, "u1", "s1", 1, from, to) :
        id \in 0 .. MaxIds, from \in CrudFrom, to \in CrudTo}
    \cup {Subscription(1, u, "s1", 1, [mon |-> FirstMon, day |-> 1], Nil) :
             u \in {"", MalformedUser}}
    \cup {Subscription(1, "u1", sv, 1, [mon |-> FirstMon, day |-> 1], Nil) :
             sv \in {"", " ", " s1 "}}
    \cup {Subscription(1, "u1", "s1", 0, [mon |-> FirstMon + 1, day |-> 1],
                       Some([mon |-> FirstMon, day |-> 1])),
          Subscription(1, "u1", "s1", 1, ZeroTime, Nil),
          Subscription(1, "u2", "s2", MaxCost, [mon |-> FirstMon, day |-> 1], Nil)}

(* the pointers the writes are called with: nil, or one to an input *)
SubPointers == {Nil} \cup {Some(sub) : sub \in SubInputs}

CrudIds == -1 .. (MaxIds + 1)

CrudFilters ==
    {SubFilter(u, Nil, Some(Period([mon |-> FirstMon, day |-> 1],
                                   [mon |-> FirstMon + 1, day |-> 1])), 0, 0) :
        u \in {"", "u1"}}

InitCrud ==
    /\ subscriptions = <<>>
    /\ seq = 0
    /\ call = NoCall
    /\ running = <<>>

NextCrud ==
    \/ call = NoCall /\ \E sub \in SubPointers, fail \in 0 .. 1 : RegisterSub(sub, fail)
    \/ call = NoCall /\ \E sub \in SubPointers, fail \in 0 .. 2 : UpdateSub(sub, fail)
    \/ call = NoCall /\ \E id \in CrudIds, fail \in 0 .. 2 : DeleteSub(id, fail)
    \/ call = NoCall /\ \E id \in CrudIds, fail \in 0 .. 1 : GetSubscriptionHandler(id, fail)
    \/ call = NoCall /\ \E f \in CrudFilters : ListSubsByFilter(f, TRUE)
    \/ call.op \in {"none", "CostSubsByFilter"}
           /\ \E f \in CrudFilters : CostSubsByFilter(f, TRUE)
    \/ Respond

SpecCrud == InitCrud /\ [][NextCrud]_vars

(* Two callers, each with one DeleteSub or UpdateSub, over two stored      *)
(* subscriptions                                                           *)

Callers == {"a", "b"}

RaceTable ==
    <<Row("u1", "s1", 1, [mon |-> FirstMon, day |-> 1], Nil),
      Row("u2", "s2", 1, [mon |-> FirstMon, day |-> 1],
          Some([mon |-> FirstMon + 1, day |-> 1]))>>

RaceIds == 0 .. (Len(RaceTable) + 1)

RaceSubs ==
    {Some(Subscription(id, "u1", " s1 ", c, [mon |-> FirstMon, day |-> MaxDay], Nil)) :
        id \in DOMAIN RaceTable, c \in 1 .. MaxCost}

InitRace ==
    /\ subscriptions = RaceTable
    /\ seq = Len(RaceTable)
    /\ call = NoCall
    /\ running = [c \in Callers |-> Idle]

NextRace ==
    \/ \E c \in Callers, id \in RaceIds : BeginDeleteSub(c, id)
    \/ \E c \in Callers : DeleteSub_GetSubByID(c)
    \/ \E c \in Callers : DeleteSub_DeleteSub(c)
    \/ \E c \in Callers, sub \in RaceSubs : BeginUpdateSub(c, sub)
    \/ \E c \in Callers : UpdateSub_UpdateSub(c)
    \/ \E c \in Callers : UpdateSub_GetSubByID(c)

SpecRace == InitRace /\ [][NextRace]_vars

----------------------------------------------------------------------------
(* Vocabulary of the properties *)

IsCost == call.op = "CostSubsByFilter"
IsList == call.op = "ListSubsByFilter"
Raw == call.filter
NormalizeFailed == call.op # "none" /\ call.repo = Nil

WellFormedUser(f) == f.UserID = "" \/ f.UserID \in Users

(* a period with both bounds non-zero, on the first of a month, from <= to *)
BoundedPeriod(f) ==
    /\ f.Period # Nil
    /\ ~IsZero(f.Period[1].From) /\ ~IsZero(f.Period[1].To)
    /\ f.Period[1].From.day = 1 /\ f.Period[1].To.day = 1
    /\ f.Period[1].From.mon <= f.Period[1].To.mon

Matches(r, f) ==
    /\ f.UserID = "" \/ r.user_id = f.UserID
    /\ f.ServiceName = Nil \/ r.service_name = f.ServiceName[1]

Overlaps(r, p) ==
    /\ r.start_date.mon <= p.To.mon
    /\ r.end_date = Nil \/ r.end_date[1].mon >= p.From.mon

EffectiveFrom(r, p) ==
    IF r.start_date.mon >= p.From.mon THEN r.start_date ELSE p.From

EffectiveTo(r, p) ==
    IF r.end_date # Nil /\ r.end_date[1].mon <= p.To.mon THEN r.end_date[1] ELSE p.To

MonthsCount(from, to) ==
    (Year(to) - Year(from)) * 12 + (Month(to) - Month(from)) + 1

RECURSIVE SumOver(_, _, _)
SumOver(ids, table, p) ==
    IF ids = {} THEN 0
    ELSE LET id == CHOOSE x \in ids : TRUE
         IN  table[id].cost
                 * MonthsCount(EffectiveFrom(table[id], p), EffectiveTo(table[id], p))
             + SumOver(ids \ {id}, table, p)

ClosedFormTotal(table, f) ==
    SumOver({id \in DOMAIN table :
                Matches(table[id], f) /\ Overlaps(table[id], f.Period[1])},
            table, f.Period[1])

Without(table, id) == [i \in DOMAIN table \ {id} |-> table[i]]

Outcome(out) == <<out.err, out.total>>

(* the rows the aggregate query joined to the months of one subscription *)
MonthsBilled(id) ==
    Cardinality({j \in SumExpanded(subscriptions, SumParams(call.repo[1])) : j[1] = id})

----------------------------------------------------------------------------
(* C1: for a bounded, month-truncated period (from <= to) and any stored   *)
(* subscriptions, CostSubsByFilter returns without error the sum, over the *)
(* subscriptions matching the user/service predicates and overlapping the  *)
(* period, of cost * monthsCount with monthsCount the closed-form inclusive *)
(* month count of the effective window.  (The call is one whose pagination *)
(* passes normalisation and whose repository query succeeds; pagination is *)
(* the subject of C2.)                                                     *)
C1_TotalIsClosedFormSum ==
    (IsCost /\ BoundedPeriod(Raw) /\ Raw.Offset >= 0 /\ WellFormedUser(Raw)
        /\ call.dbOk)
    => /\ call.err = ErrNone
       /\ call.total = ClosedFormTotal(subscriptions, Raw)

(* two stored subscriptions are summed over a period that crosses a year   *)
(* boundary, one of them billed for a part of the period only              *)
C1_Witness ==
    /\ IsCost /\ BoundedPeriod(Raw) /\ call.err = ErrNone
    /\ Year(Raw.Period[1].From) < Year(Raw.Period[1].To)
    /\ Cardinality(DOMAIN subscriptions) = 2
    /\ \A id \in DOMAIN subscriptions :
          Matches(subscriptions[id], Raw) /\ Overlaps(subscriptions[id], Raw.Period[1])
    /\ \E a, b \in DOMAIN subscriptions :
          /\ MonthsBilled(a) = 1
          /\ MonthsBilled(b) = MonthsCount(Raw.Period[1].From, Raw.Period[1].To)
          /\ subscriptions[a].cost # subscriptions[b].cost
    /\ call.total = ClosedFormTotal(subscriptions, Raw)
    /\ call.total > 0

----------------------------------------------------------------------------
PeriodRejected(f) ==
    /\ f.Period # Nil
    /\ \/ IsZero(f.Period[1].From)
       \/ ~IsZero(f.Period[1].To) /\ f.Period[1].To.mon < f.Period[1].From.mon

Unbounded(f) ==
    f.Period = Nil \/ IsZero(f.Period[1].From) \/ IsZero(f.Period[1].To)

VariantOutcome(l, o) ==
    Outcome(Subscription_CostSubsByFilter(
                subscriptions, [Raw EXCEPT !.Limit = l, !.Offset = o], call.dbOk))

(* C2 as stated: with data, user, service and period fixed, the outcome of *)
(* CostSubsByFilter (total or error) is the same for every limit and       *)
(* offset of the raw filter, negative and out-of-range values included.    *)
C2_CostIgnoresPagination ==
    IsCost => \A l \in Limits, o \in Offsets :
                  VariantOutcome(l, o) = <<call.err, call.total>>

(* C2 amended: the outcome is the same for every limit and every offset    *)
(* >= 0; with an offset < 0 the call fails without computing a total, with *)
(* ErrInvalidPagination unless normalisation already rejects the period    *)
(* with ErrInvalidPeriod.                                                  *)
C2_CostIgnoresLimitAndValidOffset ==
    IsCost =>
        /\ Raw.Offset >= 0 =>
              \A l \in Limits, o \in Offsets :
                  o >= 0 => VariantOutcome(l, o) = <<call.err, call.total>>
        /\ Raw.Offset < 0 =>
              /\ call.err = IF PeriodRejected(Raw) THEN ErrInvalidPeriod
                            ELSE ErrInvalidPagination
              /\ call.total = 0 /\ ~call.queried
              /\ \A l \in Limits, o \in Offsets :
                    o < 0 => VariantOutcome(l, o) = <<call.err, call.total>>

(* a total over a subscription billed for several months, asked with an    *)
(* out-of-range limit and a positive offset                                *)
C2_Witness ==
    /\ IsCost /\ call.err = ErrNone
    /\ Raw.Limit > 200 /\ Raw.Offset > 0
    /\ \E id \in DOMAIN subscriptions : MonthsBilled(id) >= 2
    /\ call.total > 0
    /\ call.total = VariantOutcome(0, 0)[2]

(* C3 as stated: CostSubsByFilter fails with ErrInvalidPeriod and returns  *)
(* no total whenever the raw filter has no period or a period with a zero  *)
(* from or a zero to.                                                      *)
C3_UnboundedPeriodIsInvalidPeriod ==
    (IsCost /\ Unbounded(Raw)) => call.err = ErrInvalidPeriod /\ call.total = 0

(* C3 amended: in those cases CostSubsByFilter fails and returns no total  *)
(* and the aggregate query is never run; the error is ErrInvalidPeriod,    *)
(* except ErrInvalidPagination when the offset is negative and the period  *)
(* is absent or has a non-zero from.                                       *)
C3_UnboundedPeriodFails ==
    (IsCost /\ Unbounded(Raw)) =>
        /\ call.total = 0 /\ ~call.queried
        /\ call.err = IF Raw.Offset < 0
                         /\ (Raw.Period = Nil \/ ~IsZero(Raw.Period[1].From))
                      THEN ErrInvalidPagination
                      ELSE ErrInvalidPeriod

(* a period with a from but no to passes normalisation and is rejected by  *)
(* the repository, over a table holding a subscription                     *)
C3_Witness ==
    /\ IsCost /\ Raw.Period # Nil
    /\ ~IsZero(Raw.Period[1].From) /\ IsZero(Raw.Period[1].To)
    /\ call.repo # Nil /\ call.err = ErrInvalidPeriod /\ call.total = 0
    /\ DOMAIN subscriptions # {}

(* C4: normalizeFilter fails with ErrInvalidPeriod when the filter has a   *)
(* period whose from is zero (even if to is set), and when both bounds are *)
(* set and to is before from after month truncation; in no other case does *)
(* it fail with ErrInvalidPeriod.                                          *)
C4_NormalizePeriodErrors ==
    call.op # "none" =>
        (PeriodRejected(Raw) <=> (call.repo = Nil /\ call.err = ErrInvalidPeriod))

(* two bounds in the same month, to on an earlier day than from, accepted  *)
C4_WitnessSameMonth ==
    /\ IsList /\ Raw.Period # Nil
    /\ Raw.Period[1].From.mon = Raw.Period[1].To.mon
    /\ Raw.Period[1].To.day < Raw.Period[1].From.day
    /\ call.repo # Nil

(* C5: normalizeFilter never fails because of limit and passes on a limit  *)
(* in 1..200: 50 for an input <= 0, 200 for an input > 200, the input      *)
(* otherwise.                                                              *)
C5_LimitDefaultedAndClamped ==
    call.op # "none" =>
        /\ call.repo # Nil =>
              /\ call.repo[1].Limit = IF Raw.Limit <= 0 THEN 50
                                      ELSE IF Raw.Limit > 200 THEN 200
                                      ELSE Raw.Limit
              /\ call.repo[1].Limit \in 1 .. 200
        /\ \A l \in Limits :
              (normalizeFilter([Raw EXCEPT !.Limit = l]).err = ErrNone)
                  <=> (call.repo # Nil)

C5_Witness ==
    /\ IsList /\ Raw.Limit > 200
    /\ call.repo # Nil /\ call.repo[1].Limit = 200

(* C6: given a valid period, normalizeFilter fails with                    *)
(* ErrInvalidPagination exactly when offset < 0, ListSubsByFilter then     *)
(* returns the error without calling the repository, and an offset >= 0 is *)
(* passed on unchanged.                                                    *)
C6_NegativeOffsetIsInvalidPagination ==
    (call.op # "none" /\ ~PeriodRejected(Raw)) =>
        /\ Raw.Offset < 0 <=> (call.repo = Nil /\ call.err = ErrInvalidPagination)
        /\ (IsList /\ Raw.Offset < 0) =>
              call.repo = Nil /\ ~call.queried /\ call.list = <<>>
        /\ Raw.Offset >= 0 =>
              call.repo # Nil /\ call.repo[1].Offset = Raw.Offset

C6_Witness ==
    /\ IsList /\ Raw.Offset < 0
    /\ Raw.Period # Nil /\ ~PeriodRejected(Raw)
    /\ DOMAIN subscriptions # {}
    /\ call.repo = Nil /\ call.err = ErrInvalidPagination

----------------------------------------------------------------------------
(* what one subscription alone adds to the total of the last call *)
Contribution(r) == SumSubscriptionCost(<<r>>, SumParams(call.repo[1]))

NormPeriod == call.repo[1].Period[1]

Outside(r, p) ==
    \/ r.end_date # Nil /\ r.end_date[1].mon < p.From.mon
    \/ r.start_date.mon > p.To.mon

Contains(r, p) ==
    /\ r.start_date.mon <= p.From.mon
    /\ r.end_date = Nil \/ r.end_date[1].mon >= p.To.mon

(* C7: for a bounded period, a subscription with dateTo = period.to adds   *)
(* the same amount to the total as the same subscription with dateTo       *)
(* absent.                                                                 *)
C7_OpenEndedBilledThroughPeriodTo ==
    (IsCost /\ call.err = ErrNone) =>
        \A id \in DOMAIN subscriptions :
            subscriptions[id].end_date = Some(NormPeriod.To) =>
                LET open == [subscriptions EXCEPT ![id].end_date = Nil]
                IN  /\ Contribution(open[id]) = Contribution(subscriptions[id])
                    /\ Outcome(Subscription_CostSubsByFilter(open, Raw, call.dbOk))
                           = <<call.err, call.total>>

(* a matching subscription that ends with a period of several months and   *)
(* is billed for more than one of them                                     *)
C7_Witness ==
    /\ IsCost /\ call.err = ErrNone
    /\ \E id \in DOMAIN subscriptions :
          /\ subscriptions[id].end_date = Some(NormPeriod.To)
          /\ MonthsBilled(id) >= 2
          /\ Contribution(subscriptions[id]) = subscriptions[id].cost * MonthsBilled(id)

(* C8: a subscription entirely before the period (dateTo < period.from) or *)
(* entirely after it (dateFrom > period.to) adds 0 to the total and causes *)
(* no error: the outcome of CostSubsByFilter is the same with the          *)
(* subscription stored and without it.                                     *)
C8_NonOverlappingContributesNothing ==
    (IsCost /\ ~Unbounded(Raw)) =>
        \A id \in DOMAIN subscriptions :
            Outside(subscriptions[id],
                    Period(monthStart(Raw.Period[1].From), monthStart(Raw.Period[1].To))) =>
                /\ Outcome(Subscription_CostSubsByFilter(
                               Without(subscriptions, id), Raw, call.dbOk))
                       = <<call.err, call.total>>
                /\ call.err = ErrNone =>
                       MonthsBilled(id) = 0 /\ Contribution(subscriptions[id]) = 0

(* one stored subscription ended before the period and one after it began, *)
(* both matching the filter, beside nothing else: the total is 0           *)
C8_Witness ==
    /\ IsCost /\ call.err = ErrNone /\ call.total = 0
    /\ Cardinality(DOMAIN subscriptions) = 2
    /\ \A id \in DOMAIN subscriptions : Matches(subscriptions[id], Raw)
    /\ \E a, b \in DOMAIN subscriptions :
          /\ subscriptions[a].end_date # Nil
          /\ subscriptions[a].end_date[1].mon < NormPeriod.From.mon
          /\ subscriptions[b].start_date.mon > NormPeriod.To.mon

(* C9: a subscription that fully contains the period (dateFrom <=          *)
(* period.from, dateTo absent or >= period.to) is billed for               *)
(* (to.year - from.year) * 12 + (to.month - from.month) + 1 months, and    *)
(* adds cost times that number.                                            *)
C9_ContainingSubBilledForWholePeriod ==
    (IsCost /\ call.err = ErrNone) =>
        \A id \in DOMAIN subscriptions :
            (Matches(subscriptions[id], Raw) /\ Contains(subscriptions[id], NormPeriod)) =>
                LET n == (Year(NormPeriod.To) - Year(NormPeriod.From)) * 12
                           + (Month(NormPeriod.To) - Month(NormPeriod.From)) + 1
                IN  /\ MonthsBilled(id) = n
                    /\ Contribution(subscriptions[id]) = subscriptions[id].cost * n

(* a period of three months across a year boundary inside a subscription   *)
C9_Witness ==
    /\ IsCost /\ call.err = ErrNone
    /\ Year(NormPeriod.From) < Year(NormPeriod.To)
    /\ \E id \in DOMAIN subscriptions :
          /\ Matches(subscriptions[id], Raw) /\ Contains(subscriptions[id], NormPeriod)
          /\ subscriptions[id].end_date # Nil
          /\ MonthsBilled(id) = 3

(* C10: every subscription that matches and passes the overlap test is     *)
(* billed for at least one month, and one whose effective overlap is a     *)
(* single calendar month adds exactly cost * 1.                            *)
C10_SingleMonthBilledOnce ==
    (IsCost /\ call.err = ErrNone) =>
        \A id \in DOMAIN subscriptions :
            (Matches(subscriptions[id], Raw) /\ Overlaps(subscriptions[id], NormPeriod)) =>
                /\ MonthsBilled(id) >= 1
                /\ EffectiveFrom(subscriptions[id], NormPeriod).mon
                       = EffectiveTo(subscriptions[id], NormPeriod).mon
                   => /\ MonthsBilled(id) = 1
                      /\ Contribution(subscriptions[id]) = subscriptions[id].cost

(* dateFrom = dateTo = period.from = period.to, the only subscription      *)
C10_Witness ==
    /\ IsCost /\ call.err = ErrNone
    /\ DOMAIN subscriptions = {1}
    /\ subscriptions[1].end_date = Some(subscriptions[1].start_date)
    /\ NormPeriod.From = subscriptions[1].start_date
    /\ NormPeriod.To = subscriptions[1].start_date
    /\ subscriptions[1].cost > 1
    /\ call.total = subscriptions[1].cost

----------------------------------------------------------------------------
Restrict(table, ids) == [i \in ids |-> table[i]]

(* the total of the last call's filter over another table *)
TotalOver(table) == Subscription_CostSubsByFilter(table, Raw, call.dbOk).total

RECURSIVE SumAlone(_)
SumAlone(ids) ==
    IF ids = {} THEN 0
    ELSE LET id == CHOOSE x \in ids : TRUE
         IN  TotalOver(Restrict(subscriptions, {id})) + SumAlone(ids \ {id})

(* C11: the total over the stored subscriptions is the sum of the totals   *)
(* of each subscription alone; for every split of the subscriptions into   *)
(* two disjoint sets it is the sum of the two totals; and it is the same   *)
(* for every order in which the same subscriptions are stored.             *)
C11_TotalIsAdditive ==
    (IsCost /\ call.err = ErrNone) =>
        /\ call.total = SumAlone(DOMAIN subscriptions)
        /\ \A part \in SUBSET DOMAIN subscriptions :
              call.total = TotalOver(Restrict(subscriptions, part))
                  + TotalOver(Restrict(subscriptions, DOMAIN subscriptions \ part))
        /\ \A pi \in Permutations(DOMAIN subscriptions) :
              call.total
                  = TotalOver([i \in DOMAIN subscriptions |-> subscriptions[pi[i]]])

(* two identical subscriptions, each billed for several months, count      *)
(* twice                                                                   *)
C11_Witness ==
    /\ IsCost /\ call.err = ErrNone
    /\ DOMAIN subscriptions = {1, 2}
    /\ subscriptions[1] = subscriptions[2]
    /\ MonthsBilled(1) >= 2
    /\ TotalOver(Restrict(subscriptions, {1})) > 0
    /\ call.total = 2 * TotalOver(Restrict(subscriptions, {1}))

----------------------------------------------------------------------------
(* C12: CostSubsByFilter and ListSubsByFilter leave the stored             *)
(* subscriptions (and the id sequence) as they were, and a cost call that  *)
(* directly follows a cost call with the same filter, no write in between, *)
(* returns the same total and the same error.                              *)
C12_ReadsAreReadOnly ==
    [][/\ call'.op \in {"CostSubsByFilter", "ListSubsByFilter"}
           => subscriptions' = subscriptions /\ seq' = seq
       /\ (IsCost /\ call'.op = "CostSubsByFilter" /\ call'.filter = call.filter
              /\ call'.dbOk = call.dbOk)
           => call'.total = call.total /\ call'.err = call.err]_vars

(* the second of two cost calls over a table that writes have filled,      *)
(* with a total that depends on the stored rows                            *)
C12_Witness ==
    /\ IsCost /\ call.again /\ call.err = ErrNone
    /\ Cardinality(DOMAIN subscriptions) >= 2
    /\ call.total > 0
    /\ call.total # TotalOver(Without(subscriptions, CHOOSE i \in DOMAIN subscriptions : TRUE))

----------------------------------------------------------------------------
(* strictly ascending by (dateFrom, serviceName, id) *)
Precedes(a, b) ==
    \/ a.DateFrom.mon < b.DateFrom.mon
    \/ /\ a.DateFrom = b.DateFrom
       /\ \/ ServiceRank[a.ServiceName] < ServiceRank[b.ServiceName]
          \/ a.ServiceName = b.ServiceName /\ a.ID < b.ID

(* C13: every list ListSubsByFilter returns is strictly ascending by       *)
(* (dateFrom, serviceName, id), so it holds no id twice and is the one     *)
(* arrangement of its elements in that order.                              *)
C13_ListIsSorted ==
    (IsList /\ call.err = ErrNone) =>
        \A i, j \in 1 .. Len(call.list) :
            i < j => Precedes(call.list[i], call.list[j])

(* two listed subscriptions with the same dateFrom and serviceName, in the *)
(* order of their ids                                                      *)
C13_Witness ==
    /\ IsList /\ call.err = ErrNone /\ Len(call.list) = 2
    /\ call.list[1].DateFrom = call.list[2].DateFrom
    /\ call.list[1].ServiceName = call.list[2].ServiceName
    /\ call.list[1].ID < call.list[2].ID

(* the selection the claim describes, for a normalised filter *)
Selected(r, f) ==
    /\ f.UserID = "" \/ r.user_id = f.UserID
    /\ f.ServiceName = Nil \/ r.service_name = f.ServiceName[1]
    /\ \/ f.Period = Nil
       \/ /\ r.end_date = Nil \/ r.end_date[1].mon >= f.Period[1].From.mon
          /\ IsZero(f.Period[1].To) \/ r.start_date.mon <= f.Period[1].To.mon

SelectedIds == {id \in DOMAIN subscriptions : Selected(subscriptions[id], call.repo[1])}

ListedIds == {call.list[i].ID : i \in 1 .. Len(call.list)}

(* C14: the subscriptions a listing returns all belong to the selection    *)
(* (user and service equal to the filter's when given, overlap with the    *)
(* period when given, a zero period.to being unbounded future) and are     *)
(* returned as stored; a page that is not cut returns the whole selection; *)
(* and the cost aggregate bills exactly the subscriptions of the           *)
(* selection, each for at least one month.                                 *)
C14_SelectionIsUserServiceOverlap ==
    /\ (IsList /\ call.err = ErrNone) =>
          /\ ListedIds \subseteq SelectedIds
          /\ \A i \in 1 .. Len(call.list) :
                call.list[i] = toEntity([id |-> call.list[i].ID]
                                            @@ subscriptions[call.list[i].ID])
          /\ Raw.Offset = 0 /\ Cardinality(SelectedIds) <= call.repo[1].Limit
                => ListedIds = SelectedIds
    /\ (IsCost /\ call.err = ErrNone) =>
          /\ {id \in DOMAIN subscriptions : MonthsBilled(id) >= 1} = SelectedIds
          /\ call.total = SumAlone(SelectedIds)

(* a listing with an open period.to that returns a subscription starting   *)
(* after period.from and leaves out one of another user                    *)
C14_Witness ==
    /\ IsList /\ call.err = ErrNone
    /\ Raw.UserID = "u1" /\ Raw.Period # Nil /\ IsZero(Raw.Period[1].To)
    /\ Len(call.list) = 1
    /\ call.list[1].DateFrom.mon > Raw.Period[1].From.mon
    /\ \E id \in DOMAIN subscriptions : subscriptions[id].user_id = "u2"

----------------------------------------------------------------------------
(* the error the repository returns for the filter it received *)
RepositoryError ==
    IF IsList
    THEN SubRepository_ListSubsByFilter(subscriptions, call.repo[1], call.dbOk).err
    ELSE SubRepository_CostSubsByFilter(subscriptions, call.repo[1], call.dbOk).err

(* C15: when the repository call of ListSubsByFilter or CostSubsByFilter   *)
(* fails, the use case returns the repository's error with an empty list   *)
(* and total 0, after calling the repository once; a failed store query is *)
(* never answered with a nil error.                                        *)
C15_RepositoryErrorPropagates ==
    ((IsList \/ IsCost) /\ call.repo # Nil) =>
        /\ call.err = RepositoryError
        /\ Len(call.calls) = 1
        /\ ~call.dbOk /\ call.queried => call.err = ErrStorage
        /\ call.err # ErrNone => call.list = <<>> /\ call.total = 0

(* the store fails the list query over a table that holds a matching       *)
(* subscription                                                            *)
C15_Witness ==
    /\ IsList /\ ~call.dbOk /\ call.queried
    /\ call.err = ErrStorage /\ call.list = <<>>
    /\ \E id \in DOMAIN subscriptions :
          Selected(subscriptions[id], call.repo[1])

----------------------------------------------------------------------------
IsWrite(c) == c.op \in {"RegisterSub", "UpdateSub"} /\ c.sub # Nil

(* the input's dateTo, truncated to its month, is before its dateFrom *)
EndBeforeStart(sub) ==
    /\ sub.DateTo # Nil /\ ~IsZero(sub.DateTo[1])
    /\ Before(monthStart(sub.DateTo[1]), monthStart(sub.DateFrom))

(* the input passes every check made before the period check *)
OtherwiseValid(c) ==
    /\ c.op = "UpdateSub" => c.sub[1].ID > 0
    /\ TrimSpace(c.sub[1].ServiceName) # ""
    /\ c.sub[1].Cost > 0
    /\ c.sub[1].UserID # ""
    /\ ~IsZero(c.sub[1].DateFrom)

(* C16: after every step each stored subscription has dateTo absent or not *)
(* before dateFrom.  A RegisterSub or UpdateSub whose truncated dateTo is   *)
(* before its dateFrom fails and stores nothing, with ErrInvalidPeriod and *)
(* without a repository call when the input is otherwise valid; an input   *)
(* whose dateTo is present and holds the zero time fails as well and       *)
(* leaves the table as it was.                                             *)
C16_EndNeverBeforeStart ==
    [][/\ \A id \in DOMAIN subscriptions' :
             \/ subscriptions'[id].end_date = Nil
             \/ ~Before(subscriptions'[id].end_date[1], subscriptions'[id].start_date)
       /\ (IsWrite(call') /\ EndBeforeStart(call'.sub[1])) =>
             /\ call'.err # ErrNone /\ call'.result = Nil
             /\ subscriptions' = subscriptions
             /\ OtherwiseValid(call') =>
                   call'.err = ErrInvalidPeriod /\ call'.calls = <<>>
       /\ (IsWrite(call') /\ call'.sub[1].DateTo = Some(ZeroTime)) =>
             /\ call'.err # ErrNone /\ call'.result = Nil
             /\ subscriptions' = subscriptions]_vars

(* an UpdateSub of a stored subscription with a zero dateTo passes         *)
(* validation, reaches the store and is refused by the table's CHECK       *)
C16_Witness ==
    /\ call.op = "UpdateSub" /\ call.sub # Nil
    /\ call.sub[1].DateTo = Some(ZeroTime)
    /\ call.id \in DOMAIN subscriptions
    /\ call.calls = <<"UpdateSub">>
    /\ call.err = ErrConstraint
    /\ subscriptions[call.id].end_date # Some(ZeroTime)

----------------------------------------------------------------------------
(* C17: a successful RegisterSub stores the record under the id the        *)
(* sequence hands out, which no stored subscription has, whatever id the   *)
(* caller put in the input, and changes no other record; UpdateSub and the *)
(* reads keep the set of stored ids, and a successful UpdateSub returns    *)
(* the record under the id it was given.                                   *)
C17_IdsAreFreshAndKept ==
    [][/\ (call'.op = "RegisterSub" /\ call'.err = ErrNone) =>
             /\ call'.result # Nil
             /\ call'.result[1].ID \notin DOMAIN subscriptions
             /\ call'.result[1].ID > 0
             /\ DOMAIN subscriptions' = DOMAIN subscriptions \cup {call'.result[1].ID}
             /\ Cardinality(DOMAIN subscriptions')
                    = Cardinality(DOMAIN subscriptions) + 1
             /\ \A id \in DOMAIN subscriptions : subscriptions'[id] = subscriptions[id]
       /\ (call'.op = "RegisterSub" /\ call'.err # ErrNone) =>
             subscriptions' = subscriptions
       /\ call'.op = "UpdateSub" =>
             /\ DOMAIN subscriptions' = DOMAIN subscriptions
             /\ \A id \in DOMAIN subscriptions \ {call'.id} :
                   subscriptions'[id] = subscriptions[id]
             /\ call'.err = ErrNone =>
                   call'.result # Nil /\ call'.result[1].ID = call'.id]_vars

(* a RegisterSub whose input carries the id of a stored subscription is    *)
(* stored under another id, beside that subscription                       *)
C17_Witness ==
    /\ call.op = "RegisterSub" /\ call.err = ErrNone
    /\ call.sub[1].ID \in DOMAIN subscriptions
    /\ call.result[1].ID # call.sub[1].ID
    /\ call.result[1].ID \in DOMAIN subscriptions
    /\ call.result[1].ID = seq

----------------------------------------------------------------------------
(* C18: for the same stored subscriptions and the same bounded period of   *)
(* whole months, the aggregate that steps month by month through           *)
(* generate_series and the closed-form aggregate return the same total     *)
(* without error, also where a selected subscription's effective start is  *)
(* after its effective end, which both count as 0.                         *)
C18_IterationEqualsClosedForm ==
    /\ call.op = "SubRepository.CostSubsByFilter" =>
          /\ call.err = ErrNone
          /\ Outcome(call)
                = Outcome(ClosedForm_CostSubsByFilter(subscriptions, Raw, TRUE))
    /\ call.op = "closed-form CostSubsByFilter" =>
          /\ call.err = ErrNone
          /\ Outcome(call)
                = Outcome(SubRepository_CostSubsByFilter(subscriptions, Raw, TRUE))

(* period.to before period.from: a subscription passes the selection of    *)
(* both implementations with its effective start after its effective end,  *)
(* and is billed for no month                                              *)
C18_Witness ==
    /\ call.op = "SubRepository.CostSubsByFilter" /\ call.err = ErrNone
    /\ Before(Raw.Period[1].To, Raw.Period[1].From)
    /\ \E id \in SumFiltered(subscriptions, SumParams(Raw)) :
          /\ id \in ClosedFormWhere(subscriptions, Raw)
          /\ After(SumEffectiveFrom(subscriptions[id], SumParams(Raw)),
                   SumEffectiveTo(subscriptions[id], SumParams(Raw)))
          /\ MonthsBilled(id) = 0
    /\ call.total = 0

----------------------------------------------------------------------------
(* C19: GET /subscriptions/:id with a positive id that no stored           *)
(* subscription has, the store answering, responds 404 Not Found.          *)
C19_MissingIdIs404 ==
    (call.op = "GET /subscriptions/:id" /\ call.id > 0 /\ call.fail = 0
        /\ call.id \notin DOMAIN subscriptions)
    => call.status = 404

----------------------------------------------------------------------------
(* C20: DeleteSub with id > 0 of a stored subscription, the store          *)
(* answering, removes that record only and returns it as it was stored;    *)
(* with an id > 0 that is not stored it returns ErrSubscriptionNotFound    *)
(* after GetSubByID alone and changes nothing; with id <= 0 it returns     *)
(* ErrInvalidID without any repository call and changes nothing.           *)
C20_DeleteRemovesExactlyOne ==
    [][call'.op = "DeleteSub" =>
          /\ (call'.id > 0 /\ call'.id \in DOMAIN subscriptions /\ call'.fail = 0) =>
                /\ call'.err = ErrNone
                /\ DOMAIN subscriptions' = DOMAIN subscriptions \ {call'.id}
                /\ \A id \in DOMAIN subscriptions' : subscriptions'[id] = subscriptions[id]
                /\ call'.result
                      = Some(toEntity([id |-> call'.id] @@ subscriptions[call'.id]))
                /\ call'.calls = <<"GetSubByID", "DeleteSub">>
          /\ (call'.id > 0 /\ call'.id \notin DOMAIN subscriptions /\ call'.fail # 1) =>
                /\ call'.err = ErrSubscriptionNotFound /\ call'.result = Nil
                /\ call'.calls = <<"GetSubByID">>
                /\ subscriptions' = subscriptions
          /\ call'.id <= 0 =>
                /\ call'.err = ErrInvalidID /\ call'.result = Nil
                /\ call'.calls = <<>>
                /\ subscriptions' = subscriptions]_vars

(* one of two stored subscriptions has been deleted and returned, the      *)
(* other is still stored                                                   *)
C20_Witness ==
    /\ call.op = "DeleteSub" /\ call.err = ErrNone
    /\ call.result # Nil /\ call.result[1].ID = call.id
    /\ call.result[1].DateTo # Nil
    /\ call.id \notin DOMAIN subscriptions
    /\ Cardinality(DOMAIN subscriptions) = 1

----------------------------------------------------------------------------
(* the input of a write as the use case normalizes it: the service name    *)
(* trimmed, dateFrom and a present dateTo moved to the first of the month  *)
FirstOfMonth(t) == [mon |-> t.mon, day |-> 1]

NormalizedInput(sub) ==
    [sub EXCEPT !.ServiceName = TrimSpace(sub.ServiceName),
                !.DateFrom = FirstOfMonth(sub.DateFrom),
                !.DateTo = IF sub.DateTo = Nil THEN Nil
                           ELSE Some(FirstOfMonth(sub.DateTo[1]))]

RowOf(sub) ==
    Row(sub.UserID, sub.ServiceName, sub.Cost, sub.DateFrom, sub.DateTo)

(* C21: a successful UpdateSub leaves under the id of its input the        *)
(* normalized input, field by field (dateTo absent when the input has      *)
(* none), returns that stored record and changes no other record; an       *)
(* UpdateSub of a valid input whose id is not stored, with the store       *)
(* answering, returns ErrSubscriptionNotFound and changes nothing.         *)
C21_UpdateStoresNormalizedInput ==
    [][call'.op = "UpdateSub" =>
          /\ call'.err = ErrNone =>
                /\ call'.id \in DOMAIN subscriptions
                /\ DOMAIN subscriptions' = DOMAIN subscriptions
                /\ subscriptions'[call'.id] = RowOf(NormalizedInput(call'.sub[1]))
                /\ call'.result = Some(NormalizedInput(call'.sub[1]))
                /\ \A id \in DOMAIN subscriptions \ {call'.id} :
                      subscriptions'[id] = subscriptions[id]
          /\ (/\ IsWrite(call') /\ OtherwiseValid(call')
              /\ ~EndBeforeStart(call'.sub[1])
              /\ IsUUID(call'.sub[1].UserID)
              /\ call'.fail = 0
              /\ call'.id \notin DOMAIN subscriptions) =>
                /\ call'.err = ErrSubscriptionNotFound
                /\ call'.result = Nil
                /\ subscriptions' = subscriptions]_vars

(* a successful UpdateSub of a mid-month input with no dateTo: the stored  *)
(* record starts on the first of the month and has no end date, beside     *)
(* another stored record                                                   *)
C21_Witness ==
    /\ call.op = "UpdateSub" /\ call.err = ErrNone
    /\ call.sub[1].DateTo = Nil
    /\ call.sub[1].DateFrom.day # 1
    /\ subscriptions[call.id].end_date = Nil
    /\ subscriptions[call.id].start_date.day = 1
    /\ Cardinality(DOMAIN subscriptions) = 2

(* an UpdateSub of a valid input whose id is not stored                    *)
C21_WitnessNotStored ==
    /\ call.op = "UpdateSub" /\ call.err = ErrSubscriptionNotFound
    /\ call.calls = <<"UpdateSub">>
    /\ call.id > 0 /\ call.id \notin DOMAIN subscriptions
    /\ subscriptions # <<>>

----------------------------------------------------------------------------
ValidationErrors == {ErrInvalidSubscription, ErrInvalidPeriod, ErrInvalidID}

IsWriteCall(c) == c.op \in {"RegisterSub", "UpdateSub"}

(* one of the grounds on which the use case rejects the input of a write *)
RejectedInput(c) ==
    \/ c.sub = Nil
    \/ c.op = "UpdateSub" /\ c.sub[1].ID <= 0
    \/ TrimSpace(c.sub[1].ServiceName) = ""
    \/ c.sub[1].Cost <= 0
    \/ c.sub[1].UserID = ""
    \/ IsZero(c.sub[1].DateFrom)
    \/ EndBeforeStart(c.sub[1])

(* C22: a RegisterSub or UpdateSub that ends with ErrInvalidSubscription,  *)
(* ErrInvalidPeriod or ErrInvalidID has called no repository method and    *)
(* has left the table and the id sequence as they were; a nil input, an    *)
(* id <= 0 on update, a service name empty after trimming, a cost <= 0,    *)
(* an empty user id, a zero dateFrom and a dateTo before dateFrom each end *)
(* the call with one of these errors.                                      *)
C22_RejectedWriteTouchesNothing ==
    [][IsWriteCall(call') =>
          /\ call'.err \in ValidationErrors =>
                /\ call'.calls = <<>> /\ call'.arg = Nil
                /\ call'.result = Nil
                /\ subscriptions' = subscriptions
                /\ seq' = seq
          /\ RejectedInput(call') => call'.err \in ValidationErrors]_vars

(* an UpdateSub for a stored id is rejected for its zero dateFrom *)
C22_Witness ==
    /\ call.op = "UpdateSub" /\ call.sub # Nil
    /\ call.id \in DOMAIN subscriptions
    /\ IsZero(call.sub[1].DateFrom)
    /\ call.err = ErrInvalidSubscription
    /\ call.calls = <<>>

----------------------------------------------------------------------------
(* the strings of the inputs that begin or end with white space *)
OuterSpace(str) == str \in {" ", " s1 "}

WellFormedFields(user, svc, cost, from, to) ==
    /\ svc # "" /\ ~OuterSpace(svc)
    /\ cost > 0
    /\ user # ""
    /\ from.day = 1
    /\ to = Nil \/ to[1].day = 1

(* C23: the subscription RegisterSub or UpdateSub hands to the repository, *)
(* and every stored subscription, has a non-empty service name without     *)
(* leading or trailing white space, a cost > 0, a non-empty user id, a     *)
(* dateFrom on the first day of a month and a dateTo that is absent or on  *)
(* the first day of a month.                                               *)
C23_StoredSubscriptionsAreNormalized ==
    /\ call.arg # Nil =>
          WellFormedFields(call.arg[1].UserID, call.arg[1].ServiceName,
                           call.arg[1].Cost, call.arg[1].DateFrom,
                           call.arg[1].DateTo)
    /\ \A id \in DOMAIN subscriptions :
          WellFormedFields(subscriptions[id].user_id,
                           subscriptions[id].service_name,
                           subscriptions[id].cost,
                           subscriptions[id].start_date,
                           subscriptions[id].end_date)

(* a RegisterSub whose service name has white space around it has stored   *)
(* the trimmed name                                                        *)
C23_Witness ==
    /\ call.op = "RegisterSub" /\ call.err = ErrNone
    /\ OuterSpace(call.sub[1].ServiceName)
    /\ call.arg # Nil /\ call.arg[1].ServiceName = "s1"
    /\ subscriptions[call.result[1].ID].service_name = "s1"

(* an UpdateSub with mid-month dates has handed first-of-month dates to    *)
(* the repository                                                          *)
C23_WitnessDates ==
    /\ call.op = "UpdateSub" /\ call.err = ErrNone
    /\ call.sub[1].DateFrom.day # 1
    /\ call.sub[1].DateTo # Nil /\ call.sub[1].DateTo[1].day # 1
    /\ call.arg[1].DateFrom.day = 1 /\ call.arg[1].DateTo[1].day = 1

----------------------------------------------------------------------------
(* C24: when normalizeFilter succeeds on a filter with a period, the       *)
(* period it passes on has from on the first day of the given from's       *)
(* month, and to either zero (as it is when the given to is zero) or on    *)
(* the first day of the given to's month and not before from; two bounds   *)
(* of the same month are accepted whatever their days.                     *)
C24_NormalizedPeriodIsMonthAligned ==
    (call.op # "none" /\ Raw.Period # Nil) =>
        /\ call.repo # Nil =>
              /\ call.repo[1].Period # Nil
              /\ NormPeriod.From = [mon |-> Raw.Period[1].From.mon, day |-> 1]
              /\ ~IsZero(NormPeriod.From)
              /\ IsZero(Raw.Period[1].To) => IsZero(NormPeriod.To)
              /\ ~IsZero(NormPeriod.To) =>
                    /\ NormPeriod.To = [mon |-> Raw.Period[1].To.mon, day |-> 1]
                    /\ NormPeriod.To.mon >= NormPeriod.From.mon
        /\ (/\ ~IsZero(Raw.Period[1].From) /\ ~IsZero(Raw.Period[1].To)
            /\ Raw.Period[1].From.mon = Raw.Period[1].To.mon
            /\ Raw.Offset >= 0) => call.repo # Nil

(* a cost call whose bounds lie in one month, to on an earlier day than    *)
(* from, is passed on with both bounds on the first of that month          *)
C24_Witness ==
    /\ IsCost /\ Raw.Period # Nil /\ call.repo # Nil
    /\ Raw.Period[1].To.day < Raw.Period[1].From.day
    /\ NormPeriod.From = NormPeriod.To
    /\ NormPeriod.From.day = 1 /\ ~IsZero(NormPeriod.From)

----------------------------------------------------------------------------
(* C25: a list or cost call passes the filter's userId and serviceName on  *)
(* exactly as given, leaves the Period value the caller's filter points to *)
(* as it was (the normalized period is another value) and changes neither  *)
(* the table nor the id sequence.                                          *)
C25_NormalizeIsPure ==
    [][call'.op \in {"ListSubsByFilter", "CostSubsByFilter"} =>
          /\ call'.given = call'.filter.Period
          /\ call'.repo # Nil =>
                /\ call'.repo[1].UserID = call'.filter.UserID
                /\ call'.repo[1].ServiceName = call'.filter.ServiceName
          /\ subscriptions' = subscriptions
          /\ seq' = seq]_vars

(* a filter with white space and capitals in its user id and service name  *)
(* and a mid-month period: the names are passed on as they are and the     *)
(* period is passed on truncated while the caller's is kept                *)
C25_Witness ==
    /\ IsList /\ call.repo # Nil
    /\ Raw.UserID = " U1 " /\ call.repo[1].UserID = " U1 "
    /\ Raw.ServiceName = Some(" S1 ") /\ call.repo[1].ServiceName = Some(" S1 ")
    /\ Raw.Period # Nil /\ Raw.Period[1].From.day # 1
    /\ call.given = Raw.Period
    /\ call.repo[1].Period # Raw.Period

----------------------------------------------------------------------------
Entity(id) ==
    Subscription(id, subscriptions[id].user_id, subscriptions[id].service_name,
                 subscriptions[id].cost, subscriptions[id].start_date,
                 subscriptions[id].end_date)

(* the place of a selected subscription in the order (dateFrom,            *)
(* serviceName, id) of the selected subscriptions                          *)
Rank(id) ==
    1 + Cardinality({j \in SelectedIds : Precedes(Entity(j), Entity(id))})

MatchingInOrder ==
    [i \in 1 .. Cardinality(SelectedIds) |->
        Entity(CHOOSE id \in SelectedIds : Rank(id) = i)]

PageAt(offset) ==
    Subscription_ListSubsByFilter(subscriptions,
                                  [Raw EXCEPT !.Offset = offset], TRUE).list

RECURSIVE PagesFrom(_)
PagesFrom(offset) ==
    IF offset >= Cardinality(SelectedIds) THEN <<>>
    ELSE PageAt(offset) \o PagesFrom(offset + call.repo[1].Limit)

----------------------------------------------------------------------------
Done(c) == running[c].pc = "done"

Succeeded(c) == Done(c) /\ running[c].err = ErrNone

(* both callers run DeleteSub on the same id, which was stored when they   *)
(* began                                                                   *)
BothDelete(a, b) ==
    /\ a # b
    /\ running[a].op = "DeleteSub" /\ running[b].op = "DeleteSub"
    /\ running[a].id = running[b].id
    /\ running[a].id \in DOMAIN RaceTable

StoredAtFirst(id) ==
    Subscription(id, RaceTable[id].user_id, RaceTable[id].service_name,
                 RaceTable[id].cost, RaceTable[id].start_date,
                 RaceTable[id].end_date)

(* C27: of two DeleteSub calls on the same stored id that run at once,     *)
(* each a GetSubByID followed by a DeleteSub of the repository, never both *)
(* succeed; when both have returned, one has returned the deleted record   *)
(* without error, the other ErrSubscriptionNotFound and no record, and the *)
(* id is no longer stored.                                                 *)
C27_ConcurrentDeletesOneWinner ==
    \A a, b \in Callers :
        BothDelete(a, b) =>
            /\ ~(Succeeded(a) /\ Succeeded(b))
            /\ (Done(a) /\ Done(b)) =>
                  /\ running[a].id \notin DOMAIN subscriptions
                  /\ \E w, l \in {a, b} :
                        /\ w # l
                        /\ Succeeded(w)
                        /\ running[w].result = Some(StoredAtFirst(running[w].id))
                        /\ running[l].err = ErrSubscriptionNotFound
                        /\ running[l].result = Nil

(* both callers have read the record before either deleted it: the second  *)
(* delete found no row                                                     *)
C27_Witness ==
    \E a, b \in Callers :
        /\ BothDelete(a, b) /\ Done(a) /\ Done(b)
        /\ Succeeded(a)
        /\ running[b].existing # Nil
        /\ running[b].err = ErrSubscriptionNotFound

----------------------------------------------------------------------------
(* C28: the record a successful UpdateSub returns is the normalized input  *)
(* of that call, whatever UpdateSub and DeleteSub calls of other callers   *)
(* on the same id run between its repository calls.                        *)
C28_UpdateReturnsOwnInput ==
    \A c \in Callers :
        (running[c].op = "UpdateSub" /\ Succeeded(c)) =>
            running[c].result = Some(NormalizedInput(running[c].sub[1]))

----------------------------------------------------------------------------
(* the total of the call's filter with its period replaced by (from, to),  *)
(* over the table as it is                                                 *)
TotalFor(from, to) ==
    Subscription_CostSubsByFilter(subscriptions,
        [Raw EXCEPT !.Period = Some(Period(from, to))], TRUE).total

RECURSIVE MonthByMonth(_, _)
MonthByMonth(from, to) ==
    IF Before(to, from) THEN 0
    ELSE TotalFor(from, from)
           + MonthByMonth([mon |-> from.mon + 1, day |-> 1], to)

(* C29: for first-of-month dates a <= b < c, the table and the user and    *)
(* service of the filter held fixed, the total for the period (a, c) is    *)
(* the total for (a, b) plus the total for (month after b, c); it is the   *)
(* sum of the totals of its single months, and the period that begins a    *)
(* month earlier or ends a month later (hence, step by step, every period  *)
(* that contains it) has no smaller total.                                 *)
C29_TotalSplitsAtAnyMonth ==
    (IsCost /\ call.err = ErrNone /\ BoundedPeriod(Raw)) =>
        LET a == NormPeriod.From
            c == NormPeriod.To
        IN  /\ \A b \in MonthDates :
                  (~Before(b, a) /\ Before(b, c)) =>
                      call.total = TotalFor(a, b)
                                     + TotalFor([mon |-> b.mon + 1, day |-> 1], c)
            /\ call.total = MonthByMonth(a, c)
            /\ [mon |-> a.mon - 1, day |-> 1] \in MonthDates =>
                  TotalFor([mon |-> a.mon - 1, day |-> 1], c) >= call.total
            /\ [mon |-> c.mon + 1, day |-> 1] \in MonthDates =>
                  TotalFor(a, [mon |-> c.mon + 1, day |-> 1]) >= call.total

(* a period of more than one month over a subscription that is active in   *)
(* months on both sides of a split, beside one that ends inside the period *)
C29_Witness ==
    /\ IsCost /\ call.err = ErrNone /\ BoundedPeriod(Raw)
    /\ NormPeriod.To.mon >= NormPeriod.From.mon + 2
    /\ TotalFor(NormPeriod.From, NormPeriod.From) > 0
    /\ TotalFor(NormPeriod.To, NormPeriod.To) > 0
    /\ TotalFor(NormPeriod.To, NormPeriod.To)
          < TotalFor(NormPeriod.From, NormPeriod.From)
    /\ call.total > TotalFor(NormPeriod.From, NormPeriod.From)

====
